---- MODULE Spec2Model ----
(***************************************************************************)
(* GEM-PRO annotation pipeline (ssbio/pipeline/gempro.py).                 *)
(*                                                                         *)
(* The state is the project's gene list and, per gene, the nested          *)
(* annotation dictionaries gene.annotation['sequence'] and                 *)
(* gene.annotation['structure'].  Every public method of GEMPRO that       *)
(* loops over self.genes is modelled as a call: a begin action, one step   *)
(* per gene (the loop body) and an end action (the code after the loop).   *)
(* An exception raised inside a loop body ends the call at once.           *)
(*                                                                         *)
(* Python values: None is the string "None"; a dict is a function whose    *)
(* domain is its key set; an insertion-ordered dict is a record            *)
(* [keys, val] with keys the iteration order.  Results of the external     *)
(* collaborators (KEGG, UniProt, PDB, BLAST, I-TASSER, the sequence        *)
(* checker) are nondeterministic inputs of the steps.                      *)
(***************************************************************************)
EXTENDS Integers, Sequences, FiniteSets, TLC

VARIABLES genes, seq, struct, call, err, ncalls, io,
          missing_mapping, df_sequence_mapping, last, manual_set

vars == <<genes, seq, struct, call, err, ncalls, io,
          missing_mapping, df_sequence_mapping, last, manual_set>>

----------------------------------------------------------------------------
(* Bounds of the model *)

\* number of API calls in one behaviour
MaxCalls == 3

\* length of the sequences read from sequence files
MaxSeqLen == 1

----------------------------------------------------------------------------
(* Python values *)

None == "None"

GeneIds == {"g1", "g2"}

Accs == {"P1", "P2"}

Range(s) == {s[i] : i \in 1..Len(s)}

\* dict.update(u): keys of u overwrite, the other keys stay
Update(d, u) == [k \in DOMAIN d \cup DOMAIN u |-> IF k \in DOMAIN u THEN u[k] ELSE d[k]]

\* {k: d[k] for k in K if k in d}
Restrict(d, K) == [k \in K \cap DOMAIN d |-> d[k]]

EmptyDict == [k \in {} |-> None]

\* an insertion-ordered dict with no entry
EmptyODict == [keys |-> <<>>, val |-> EmptyDict]

\* d[k] = v on an insertion-ordered dict: a new key goes last, an old key keeps its place
ODictPut(d, k, v) ==
    [keys |-> IF k \in Range(d.keys) THEN d.keys ELSE Append(d.keys, k),
     val  |-> Update(d.val, [x \in {k} |-> v])]

----------------------------------------------------------------------------
(* Annotation records *)

\* the default 'kegg' and 'representative' sequence record
DefaultSeqRecord ==
    [uniprot_acc |-> None, kegg_id |-> None, seq_len |-> 0, pdbs |-> <<>>,
     seq_file |-> None, metadata_file |-> None]

\* gene.annotation['sequence'] of a new gene
DefaultSequence ==
    [kegg |-> DefaultSeqRecord, uniprot |-> EmptyODict, representative |-> DefaultSeqRecord]

\* a structure_id is a (pdb, chain) pair or a homology model id, written <<id>>;
\* the structure_id None is the empty tuple
NoStructure == <<>>

\* gene.annotation['structure']['representative'] of a new gene
DefaultStructRep ==
    [structure_id |-> NoStructure, seq_coverage |-> 0, original_pdb_file |-> None,
     clean_pdb_file |-> None]

\* gene.annotation['structure'] of a new gene
DefaultStructure ==
    [homology |-> EmptyODict, pdb |-> EmptyODict, representative |-> DefaultStructRep]

----------------------------------------------------------------------------
(* File names and identifiers produced by the collaborators *)

\* basename of the FASTA file KEGG gives for a gene
KeggSeqFile(g) == IF g = "g1" THEN "eco-g1.faa" ELSE "eco-g2.faa"

\* basename of the KEGG metadata file of a gene
KeggMetaFile(g) == IF g = "g1" THEN "eco-g1.kegg" ELSE "eco-g2.kegg"

\* kegg_organism_code + ':' + kegg_g
KeggId(g) == IF g = "g1" THEN "eco:g1" ELSE "eco:g2"

\* the PDB ids of the STRUCTURE field of a KEGG metadata file
KeggPdbs == <<"1abc">>

\* accessions KEGG may map a gene to
KeggAccs == {"P1"}

\* basename of the FASTA file of a UniProt accession
UniSeqFile(a) == IF a = "P1" THEN "P1.fasta" ELSE "P2.fasta"

\* basename of the metadata file of a UniProt accession
UniMetaFile(a) == IF a = "P1" THEN "P1.txt" ELSE "P2.txt"

\* the kegg_id of a UniProt metadata record is a list of KEGG ids
UniKeggIds == "['eco:b0001']"

\* the PDB ids of a UniProt metadata record
UniPdbs == <<"1abc">>

\* basename of the FASTA file written for a manually given sequence
ManualSeqFile(g) == IF g = "g1" THEN "g1.faa" ELSE "g2.faa"

IsList(v) == v = UniKeggIds

\* ';'.join(v) of a list of KEGG ids
JoinKeggIds(v) == IF v = UniKeggIds THEN "eco:b0001" ELSE v

\* ';'.join(p) of a list of PDB ids (the lists of the model hold at most one id)
JoinPdbs(p) == IF Len(p) = 1 THEN p[1] ELSE "joined"

----------------------------------------------------------------------------
(* Calls *)

\* op: the method running; i: the position of its loop in self.genes; flag: its
\* boolean parameter (always_use_homology, all_genes); sortby: sort_homology_by;
\* chain: whether the local name 'chain' is bound; rows: the rows collected so far;
\* input: input_dict, the models given for each gene (none for a gene not in it)
NoInput == [g \in GeneIds |-> <<>>]

IdleCall ==
    [op |-> "idle", i |-> 0, flag |-> FALSE, sortby |-> "seq_coverage", chain |-> FALSE,
     rows |-> <<>>, input |-> NoInput]

\* the call record when a method enters its loop over self.genes
StartCall(op, flag) ==
    [op |-> op, i |-> 1, flag |-> flag, sortby |-> "seq_coverage", chain |-> FALSE,
     rows |-> <<>>, input |-> NoInput]

Idle == call.op = "idle"

\* the loop of method op is at gene g
AtGene(op, g) == call.op = op /\ call.i <= Len(genes) /\ genes[call.i] = g

\* the loop of method op has run out of genes
AtEnd(op) == call.op = op /\ call.i = Len(genes) + 1

\* a method is entered
Begin(op, flag) ==
    /\ Idle
    /\ ncalls < MaxCalls
    /\ ncalls' = ncalls + 1
    /\ call' = StartCall(op, flag)
    /\ err' = "none"
    /\ io' = <<>>
    /\ UNCHANGED <<genes, seq, struct, missing_mapping, df_sequence_mapping, last, manual_set>>

\* the sequence annotation of gene g becomes sp, by an operation other than the resolver
WriteSequence(g, sp) ==
    /\ seq' = [seq EXCEPT ![g] = sp]
    /\ last' = [last EXCEPT ![g] = "none"]

----------------------------------------------------------------------------
(* kegg_mapping_and_metadata *)

\* the kegg_dict the loop body builds for gene g, for every outcome of the
\* downloads; for the genes other than g1 the downloads give all or nothing
KeggDicts(g) ==
    IF g = "g1"
    THEN { Update(Update(m, s), a) :
             m \in { EmptyDict,
                     [metadata_file |-> KeggMetaFile(g)],
                     [metadata_file |-> KeggMetaFile(g), pdbs |-> KeggPdbs] },
             s \in { EmptyDict } \cup
                   { [kegg_id |-> KeggId(g), seq_file |-> KeggSeqFile(g), seq_len |-> n] :
                         n \in 1..MaxSeqLen },
             a \in { EmptyDict } \cup { [uniprot_acc |-> u] : u \in KeggAccs } }
    ELSE { EmptyDict,
           [metadata_file |-> KeggMetaFile(g), pdbs |-> KeggPdbs, kegg_id |-> KeggId(g),
            seq_file |-> KeggSeqFile(g), seq_len |-> 1] }

kegg_mapping_and_metadata_begin == Begin("kegg_mapping_and_metadata", FALSE)

KeggStep_mut(seq_prop, kegg_dict) ==
    [seq_prop EXCEPT !.representative = Update(@, kegg_dict)]

\* the sequence annotation after kegg_dict was saved in the gene
KeggStep(seq_prop, kegg_dict) == [seq_prop EXCEPT !.kegg = Update(@, kegg_dict)]

kegg_mapping_and_metadata_step ==
    \E g \in GeneIds :
        /\ AtGene("kegg_mapping_and_metadata", g)
        /\ \E kegg_dict \in KeggDicts(g) :
               WriteSequence(g, KeggStep(seq[g], kegg_dict))
        /\ call' = [call EXCEPT !.i = @ + 1]
        /\ UNCHANGED <<genes, struct, err, ncalls, io, missing_mapping,
                       df_sequence_mapping, manual_set>>

kegg_mapping_and_metadata_end ==
    /\ AtEnd("kegg_mapping_and_metadata")
    /\ call' = IdleCall
    /\ UNCHANGED <<genes, seq, struct, err, ncalls, io, missing_mapping,
                   df_sequence_mapping, last, manual_set>>

----------------------------------------------------------------------------
(* uniprot_mapping_and_metadata *)

\* lists of distinct accessions the mapping service may give for one gene
AccLists ==
    { <<>> } \cup { <<a>> : a \in Accs } \cup
    { p \in Accs \X Accs : p[1] # p[2] }

\* a complete record of parse_uniprot_txt_file: reviewed, with structures
FullMeta == [reviewed |-> TRUE, pdbs |-> UniPdbs, seq_len |-> 1, kegg_id |-> UniKeggIds]

\* the records parse_uniprot_txt_file may return: the scores 2, 1, 1 and 0, and the
\* entries without a KEGG cross-reference, without a sequence length, without both
UniMetas ==
    { FullMeta,
      [reviewed |-> TRUE],
      [reviewed |-> FALSE, pdbs |-> UniPdbs, seq_len |-> 1],
      [reviewed |-> FALSE, kegg_id |-> UniKeggIds] }

\* what the UniProt services may answer for gene g: the mapped accessions and
\* the metadata of each; the genes other than g1 are unknown to UniProt
UniprotAnswers(g) ==
    IF g = "g1"
    THEN UNION { { [accs |-> accs, metas |-> metas] : metas \in [Range(accs) -> UniMetas] } :
                 accs \in AccLists }
    ELSE { [accs |-> <<>>, metas |-> EmptyDict] }

\* uniprot_dict after the files of accession a were downloaded and parsed
UniprotDictFor(d, a, meta) ==
    LET d1 == Update(d, [uniprot_acc |-> a, seq_file |-> UniSeqFile(a),
                         metadata_file |-> UniMetaFile(a)])
        d2 == Update(d1, meta)
    IN  IF "pdbs" \in DOMAIN d2 THEN d2 ELSE Update(d2, [pdbs |-> <<>>])

\* uniprot_dict at the end of the loop over the mapped accessions: the loop
\* body of one gene fills one dict object for all of them
RECURSIVE UniprotDictFold(_, _, _, _)
UniprotDictFold(d, g, accs, metas) ==
    IF accs = <<>> THEN d
    ELSE UniprotDictFold(Update(UniprotDictFor(d, Head(accs), metas[Head(accs)]),
                                [gene |-> g]),
                         g, Tail(accs), metas)

\* the 'uniprot' dict of the gene once every mapped accession was stored: each
\* key holds the one dict object, read at the end of the loop
RECURSIVE StoreUniprot(_, _, _)
StoreUniprot(uni, accs, d) ==
    IF accs = <<>> THEN uni
    ELSE StoreUniprot(ODictPut(uni, Head(accs), d), Tail(accs), d)

uniprot_mapping_and_metadata_begin == Begin("uniprot_mapping_and_metadata", FALSE)

\* the sequence annotation after the accessions mapped to gene g were saved
UniprotStep(seq_prop, g, answer) ==
    LET d == UniprotDictFold(EmptyDict, g, answer.accs, answer.metas)
    IN [seq_prop EXCEPT !.uniprot = StoreUniprot(@, answer.accs, d)]

uniprot_mapping_and_metadata_step ==
    \E g \in GeneIds :
        /\ AtGene("uniprot_mapping_and_metadata", g)
        /\ \E answer \in UniprotAnswers(g) :
               WriteSequence(g, UniprotStep(seq[g], g, answer))
        /\ call' = [call EXCEPT !.i = @ + 1]
        /\ UNCHANGED <<genes, struct, err, ncalls, io, missing_mapping,
                       df_sequence_mapping, manual_set>>

uniprot_mapping_and_metadata_end ==
    /\ AtEnd("uniprot_mapping_and_metadata")
    /\ call' = IdleCall
    /\ UNCHANGED <<genes, seq, struct, err, ncalls, io, missing_mapping,
                   df_sequence_mapping, last, manual_set>>

----------------------------------------------------------------------------
(* manual_uniprot_mapping and manual_seq_mapping *)

your_keys == {"kegg_id", "uniprot_acc", "pdbs", "seq_len", "seq_file", "metadata_file"}

\* {your_key: d[your_key] for your_key in your_keys if your_key in d}
for_saving(d) == Restrict(d, your_keys)

\* uniprot_dict of manual_uniprot_mapping for the entry u: no default for pdbs
ManualUniprotDict(u, meta) ==
    Update([uniprot_acc |-> u, seq_file |-> UniSeqFile(u), metadata_file |-> UniMetaFile(u)],
           meta)

\* the representative record after the manual UniProt entry u was saved in it
ManualUniprotRecord(rep, u, meta) ==
    Update(rep, for_saving(ManualUniprotDict(u, meta)))

\* the representative record after the manual sequence of length n was saved in it
ManualSeqRecord(rep, g, n) ==
    Update(rep, [seq_len |-> n, seq_file |-> ManualSeqFile(g)])

\* the dicts a manual mapping may be given: one entry for each gene of a
\* non-empty set of genes, the entry of gene g drawn from values[g]
ManualDicts(values) ==
    UNION { { d \in [S -> UNION { values[g] : g \in S }] : \A g \in S : d[g] \in values[g] } :
            S \in (SUBSET GeneIds) \ {{}} }

\* the manual UniProt entries of gene g: the accession and what its metadata
\* file holds; only g1 is given one
ManualUniprots ==
    [g \in GeneIds |->
        IF g = "g1" THEN { [acc |-> a, meta |-> m] : a \in Accs, m \in UniMetas }
        ELSE { }]

\* the lengths of the manual sequences of gene g
ManualSeqLens == [g \in GeneIds |-> IF g = "g1" THEN 0..MaxSeqLen ELSE {1}]

manual_uniprot_mapping ==
    /\ Idle
    /\ ncalls < MaxCalls
    /\ ncalls' = ncalls + 1
    /\ \E gene_to_uniprot_dict \in ManualDicts(ManualUniprots) :
           /\ seq' = [g \in GeneIds |->
                        IF g \in DOMAIN gene_to_uniprot_dict
                        THEN [seq[g] EXCEPT !.representative =
                                 ManualUniprotRecord(@, gene_to_uniprot_dict[g].acc,
                                                     gene_to_uniprot_dict[g].meta)]
                        ELSE seq[g]]
           /\ last' = [g \in GeneIds |->
                         IF g \in DOMAIN gene_to_uniprot_dict THEN "none" ELSE last[g]]
           /\ manual_set' = manual_set \cup DOMAIN gene_to_uniprot_dict
    /\ err' = "none"
    /\ UNCHANGED <<genes, struct, call, io, missing_mapping, df_sequence_mapping>>

manual_seq_mapping ==
    /\ Idle
    /\ ncalls < MaxCalls
    /\ ncalls' = ncalls + 1
    /\ \E gene_to_seq_dict \in ManualDicts(ManualSeqLens) :
           /\ seq' = [g \in GeneIds |->
                        IF g \in DOMAIN gene_to_seq_dict
                        THEN [seq[g] EXCEPT !.representative =
                                 ManualSeqRecord(@, g, gene_to_seq_dict[g])]
                        ELSE seq[g]]
           /\ last' = [g \in GeneIds |->
                         IF g \in DOMAIN gene_to_seq_dict THEN "none" ELSE last[g]]
           /\ manual_set' = manual_set \cup DOMAIN gene_to_seq_dict
    /\ err' = "none"
    /\ UNCHANGED <<genes, struct, call, io, missing_mapping, df_sequence_mapping>>

----------------------------------------------------------------------------
(* set_representative_sequence *)

\* a bug: a record counts as set when it names an accession
AlreadySet_mut(rep) == rep.uniprot_acc # None

\* "a representative sequence has already been set"
AlreadySet(rep) == rep.seq_len > 0

\* reviewed (bool) + num_pdbs
Score(u) == (IF u.reviewed THEN 1 ELSE 0) + Len(u.pdbs)

\* u_ranker: (u, score) for every key of the 'uniprot' dict, in iteration order
u_ranker(uni) ==
    [i \in 1..Len(uni.keys) |-> <<uni.keys[i], Score(uni.val[uni.keys[i]])>>]

\* a bug: an unstable sort, the later of two equal elements comes first
RECURSIVE InsertDesc_mut(_, _)
InsertDesc_mut(sorted, t) ==
    IF sorted = <<>> THEN <<t>>
    ELSE IF Head(sorted)[2] > t[2]
         THEN <<Head(sorted)>> \o InsertDesc_mut(Tail(sorted), t)
         ELSE <<t>> \o sorted

\* one element more in a list sorted by the second field, descending: it goes
\* behind the elements that are not smaller (Python's sort is stable)
RECURSIVE InsertDesc(_, _)
InsertDesc(sorted, t) ==
    IF sorted = <<>> THEN <<t>>
    ELSE IF Head(sorted)[2] >= t[2]
         THEN <<Head(sorted)>> \o InsertDesc(Tail(sorted), t)
         ELSE <<t>> \o sorted

\* sorted(u_ranker, key=lambda tup: tup[1], reverse=True)
RECURSIVE sorted_by_second(_)
sorted_by_second(r) ==
    IF r = <<>> THEN <<>>
    ELSE InsertDesc(sorted_by_second(SubSeq(r, 1, Len(r) - 1)), r[Len(r)])

\* best_u = sorted_by_second[0][0]
best_u(uni) == sorted_by_second(u_ranker(uni))[1][1]

\* a bug: the pdbs of the KEGG record are not copied
SetFromKegg_mut(rep, kegg_prop) ==
    Update(rep, Restrict(kegg_prop, {"uniprot_acc", "kegg_id", "seq_len", "seq_file",
                                     "metadata_file"}))

\* the representative record once the KEGG record was chosen
SetFromKegg(rep, kegg_prop) == Update(rep, kegg_prop)

\* the representative record once the best UniProt entry was chosen
SetFromUniprot(rep, uni) == Update(rep, for_saving(uni.val[best_u(uni)]))

\* a bug: the rule of the docstring, KEGG has pdbs and no UniProt entry has
UseKegg_mut(kegg_prop, uni) ==
    /\ Len(kegg_prop.pdbs) > 0
    /\ \A u \in Range(uni.keys) : Len(uni.val[u].pdbs) = 0

\* "Use KEGG if the mapped UniProt is unique, and it has PDBs"
UseKegg(kegg_prop, uni) ==
    Len(kegg_prop.pdbs) > 0 /\ kegg_prop.uniprot_acc \notin Range(uni.keys)

\* genedict of a gene whose representative was already set
AlreadySetDict(rep) ==
    [metadata_file |-> rep.metadata_file, pdbs |-> rep.pdbs,
     uniprot_acc |-> rep.uniprot_acc,
     kegg_id |-> IF IsList(rep.kegg_id) THEN JoinKeggIds(rep.kegg_id) ELSE rep.kegg_id,
     seq_len |-> rep.seq_len, seq_file |-> rep.seq_file]

\* the row of the gene: pdbs as a string or None, and the gene id
FinishRow(genedict, g) ==
    Update(genedict, [pdbs |-> IF genedict.pdbs # <<>> THEN JoinPdbs(genedict.pdbs) ELSE None,
                      gene |-> g])

\* the outcome of the loop body for one gene: the new representative record, the
\* branch taken, the row appended to seq_mapping_pre_df, the exception raised

\* "If a representative sequence has already been set, nothing needs to be done"
AlreadySetBranch(g, rep) ==
    [rep |-> rep, branch |-> "AlreadySet", error |-> "none",
     row |-> FinishRow(AlreadySetDict(rep), g)]

\* "set KEGG as representative"
KeggBranch(g, rep, kegg_prop) ==
    [rep |-> SetFromKegg(rep, kegg_prop), branch |-> "KEGG", error |-> "none",
     row |-> FinishRow(Update([pdbs |-> <<>>], kegg_prop), g)]

\* "If there are UniProt annotations and no KEGG annotations": genedict['kegg_id']
\* is read without a test for the key
UniprotOnlyBranch(g, rep, uni) ==
    LET genedict == Update([pdbs |-> <<>>], for_saving(uni.val[best_u(uni)]))
    IN  IF "kegg_id" \in DOMAIN genedict
        THEN [rep |-> SetFromUniprot(rep, uni), branch |-> "UniProt", error |-> "none",
              row |-> FinishRow(Update(genedict,
                                  [kegg_id |-> JoinKeggIds(genedict.kegg_id)]), g)]
        ELSE [rep |-> SetFromUniprot(rep, uni), branch |-> "UniProt",
              error |-> "KeyError", row |-> EmptyDict]

\* the UniProt ranking "If there are both UniProt and KEGG annotations"
UniprotBothBranch(g, rep, uni) ==
    LET genedict == Update([pdbs |-> <<>>], for_saving(uni.val[best_u(uni)]))
    IN  [rep |-> SetFromUniprot(rep, uni), branch |-> "UniProt", error |-> "none",
         row |-> FinishRow(IF "kegg_id" \in DOMAIN genedict
                           THEN Update(genedict,
                                  [kegg_id |-> JoinKeggIds(genedict.kegg_id)])
                           ELSE genedict, g)]

\* a bug: the row of an unresolved gene is read for a key it does not have
UnresolvedBranch_mut(g, rep) ==
    [rep |-> rep, branch |-> "Unresolved", error |-> "KeyError", row |-> EmptyDict]

\* no branch of the if statement is taken
UnresolvedBranch(g, rep) ==
    [rep |-> rep, branch |-> "Unresolved", error |-> "none",
     row |-> FinishRow([pdbs |-> <<>>], g)]

RepSeqBody(g, seq_prop) ==
    LET rep  == seq_prop.representative
        kegg == seq_prop.kegg
        uni  == seq_prop.uniprot
    IN  IF AlreadySet(rep) THEN AlreadySetBranch(g, rep)
        ELSE IF kegg.seq_len > 0 /\ Len(uni.keys) = 0 THEN KeggBranch(g, rep, kegg)
        ELSE IF kegg.seq_len = 0 /\ Len(uni.keys) > 0 THEN UniprotOnlyBranch(g, rep, uni)
        ELSE IF kegg.seq_len > 0 /\ Len(uni.keys) > 0
        THEN IF UseKegg(kegg, uni) THEN KeggBranch(g, rep, kegg)
             ELSE UniprotBothBranch(g, rep, uni)
        ELSE UnresolvedBranch(g, rep)

\* pd.isnull(tmp.seq_file) of a row
NullSeqFile(row) == "seq_file" \notin DOMAIN row \/ row.seq_file = None

\* the gene column of the rows that satisfy Test, without repetition
RECURSIVE GenesOf(_, _)
GenesOf(rows, nullfile) ==
    IF rows = <<>> THEN <<>>
    ELSE LET rest == GenesOf(SubSeq(rows, 1, Len(rows) - 1), nullfile)
             row  == rows[Len(rows)]
         IN  IF NullSeqFile(row) = nullfile /\ row.gene \notin Range(rest)
             THEN Append(rest, row.gene) ELSE rest

\* the rows whose seq_file is not null
RECURSIVE NotNullRows(_)
NotNullRows(rows) ==
    IF rows = <<>> THEN <<>>
    ELSE IF NullSeqFile(Head(rows)) THEN NotNullRows(Tail(rows))
         ELSE <<Head(rows)>> \o NotNullRows(Tail(rows))

set_representative_sequence_begin == Begin("set_representative_sequence", FALSE)

SaveRepresentative_mut(seq_prop, rep) ==
    [seq_prop EXCEPT !.representative = rep, !.kegg = rep]

\* seq_prop after seq_prop['representative'].update(...) made the record rep
SaveRepresentative(seq_prop, rep) == [seq_prop EXCEPT !.representative = rep]

set_representative_sequence_step ==
    \E g \in GeneIds :
        /\ AtGene("set_representative_sequence", g)
        /\ LET r == RepSeqBody(g, seq[g])
           IN  /\ seq' = [seq EXCEPT ![g] = SaveRepresentative(@, r.rep)]
               /\ last' = [last EXCEPT ![g] = r.branch]
               /\ IF r.error = "none"
                  THEN /\ call' = [call EXCEPT !.i = @ + 1, !.rows = Append(@, r.row)]
                       /\ err' = err
                  ELSE /\ call' = IdleCall
                       /\ err' = r.error
        /\ UNCHANGED <<genes, struct, ncalls, io, missing_mapping, df_sequence_mapping,
                       manual_set>>

set_representative_sequence_end ==
    /\ AtEnd("set_representative_sequence")
    /\ missing_mapping' = GenesOf(call.rows, TRUE)
    /\ df_sequence_mapping' = NotNullRows(call.rows)
    /\ call' = IdleCall
    /\ UNCHANGED <<genes, seq, struct, err, ncalls, io, last, manual_set>>

----------------------------------------------------------------------------
(* Structure annotations *)

\* d.update(u) on insertion-ordered dicts: old keys keep their place and take
\* u's value, new keys go last in u's order
ODictUpdate(d, u) ==
    [keys |-> d.keys \o SelectSeq(u.keys, LAMBDA k : k \notin Range(d.keys)),
     val  |-> Update(d.val, u.val)]

\* OrderedDict([k, v] for k, v in d.items() if k not in K)
ODictWithout(d, K) ==
    [keys |-> SelectSeq(d.keys, LAMBDA k : k \notin K),
     val  |-> Restrict(d.val, DOMAIN d.val \ K)]

\* str.lower() on the PDB ids the collaborators return
Lower(s) ==
    CASE s = "1ABC" -> "1abc"
      [] s = "2XYZ" -> "2xyz"
      [] s = "3DEF" -> "3def"
      [] OTHER -> s

\* str.upper() on the chain ids the collaborators return
Upper(c) ==
    CASE c = "a" -> "A"
      [] c = "b" -> "B"
      [] OTHER -> c

\* the loop goes on to the next gene
Continue ==
    /\ call' = [call EXCEPT !.i = @ + 1]
    /\ UNCHANGED <<err, ncalls>>

\* an exception leaves the method
Raise(error) ==
    /\ call' = IdleCall
    /\ err' = error
    /\ UNCHANGED ncalls

\* the code after the loop: the method returns
Return(op) ==
    /\ AtEnd(op)
    /\ call' = IdleCall
    /\ UNCHANGED <<genes, seq, struct, err, ncalls, io, missing_mapping, df_sequence_mapping,
                   last, manual_set>>

----------------------------------------------------------------------------
(* map_uniprot_to_pdb *)

\* what ssbio.databases.pdb.best_structures may answer for an accession: the
\* ranked list of its structures, best first
BestStructuresAnswers ==
    { <<>>,
      << [pdb_id |-> "2XYZ", chain_id |-> "a", coverage |-> 2] >>,
      << [pdb_id |-> "1abc", chain_id |-> "A", coverage |-> 3],
         [pdb_id |-> "2xyz", chain_id |-> "A", coverage |-> 2],
         [pdb_id |-> "1abc", chain_id |-> "B", coverage |-> 1] >>,
      \* a chain listed twice (the code's NOTE: the key is not always unique)
      << [pdb_id |-> "1abc", chain_id |-> "A", coverage |-> 3],
         [pdb_id |-> "1ABC", chain_id |-> "a", coverage |-> 1] >> }

\* best_structure_dict of the entry at position rank of the ranking
BestStructureDict(best_structure, uniprot_id, rank) ==
    [pdb_id |-> Lower(best_structure.pdb_id),
     pdb_chain_id |-> Upper(best_structure.chain_id),
     uniprot_acc |-> uniprot_id,
     seq_coverage |-> best_structure.coverage,
     rank |-> rank]

\* to_add_to_annotation after the first n entries of the ranking
RECURSIVE RankedToAdd(_, _, _)
RankedToAdd(best_structures, uniprot_id, n) ==
    IF n = 0 THEN EmptyODict
    ELSE LET d == BestStructureDict(best_structures[n], uniprot_id, n)
         IN ODictPut(RankedToAdd(best_structures, uniprot_id, n - 1),
                     <<d.pdb_id, d.pdb_chain_id>>, d)

MergeRanked_mut(pdb, to_add_to_annotation) == ODictUpdate(pdb, to_add_to_annotation)

\* structure.pdb after the ranking was merged in: the ranked entries, then the
\* old entries whose key is not ranked
MergeRanked(pdb, to_add_to_annotation) ==
    IF Len(pdb.keys) > 0
    THEN ODictUpdate(to_add_to_annotation,
                     ODictWithout(pdb, Range(to_add_to_annotation.keys)))
    ELSE to_add_to_annotation

SkipRanking_mut(uniprot_id) == FALSE

\* "if not uniprot_id": no representative accession, the gene is skipped
SkipRanking(uniprot_id) == uniprot_id = None

\* the structure annotation after the loop body for a gene with the
\* representative accession uniprot_id and the ranking best_structures
RankedStep(st, uniprot_id, best_structures) ==
    IF SkipRanking(uniprot_id) \/ Len(best_structures) = 0 THEN st
    ELSE [st EXCEPT !.pdb = MergeRanked(@, RankedToAdd(best_structures, uniprot_id,
                                                      Len(best_structures)))]

map_uniprot_to_pdb_begin == Begin("map_uniprot_to_pdb", FALSE)

map_uniprot_to_pdb_step ==
    \E g \in GeneIds :
        /\ AtGene("map_uniprot_to_pdb", g)
        /\ LET uniprot_id == seq[g].representative.uniprot_acc
           IN IF SkipRanking(uniprot_id)
              THEN UNCHANGED struct
              ELSE \E best_structures \in BestStructuresAnswers :
                     struct' = [struct EXCEPT ![g] = RankedStep(@, uniprot_id, best_structures)]
        /\ Continue
        /\ UNCHANGED <<genes, seq, io, missing_mapping, df_sequence_mapping, last, manual_set>>

map_uniprot_to_pdb_end == Return("map_uniprot_to_pdb")

----------------------------------------------------------------------------
(* blast_seqs_to_pdb *)

\* what ssbio.databases.pdb.blast_pdb may answer for the sequence of gene g
BlastAnswers(g) ==
    IF g = "g1"
    THEN { <<>>,
           << [hit_pdb |-> "2XYZ", hit_pdb_chains |-> <<"a">>, hit_percent_ident |-> 1],
              [hit_pdb |-> "3DEF", hit_pdb_chains |-> <<"A", "B">>, hit_percent_ident |-> 1] >> }
    ELSE { <<>>,
           << [hit_pdb |-> "3DEF", hit_pdb_chains |-> <<"A">>, hit_percent_ident |-> 1] >> }

\* blast_dict of chain number c of a hit
BlastDict(blast_result, c) ==
    [pdb_id |-> Lower(blast_result.hit_pdb),
     pdb_chain_id |-> Upper(blast_result.hit_pdb_chains[c]),
     seq_coverage |-> blast_result.hit_percent_ident]

\* to_add_to_annotation after the first c chains of a hit were added to d
RECURSIVE BlastHitToAdd(_, _, _)
BlastHitToAdd(d, blast_result, c) ==
    IF c = 0 THEN d
    ELSE LET b == BlastDict(blast_result, c)
         IN ODictPut(BlastHitToAdd(d, blast_result, c - 1), <<b.pdb_id, b.pdb_chain_id>>, b)

\* to_add_to_annotation after the first n hits
RECURSIVE BlastToAdd(_, _)
BlastToAdd(blast_results, n) ==
    IF n = 0 THEN EmptyODict
    ELSE BlastHitToAdd(BlastToAdd(blast_results, n - 1), blast_results[n],
                       Len(blast_results[n].hit_pdb_chains))

MergeBlast_mut(pdb, to_add_to_annotation) == ODictUpdate(pdb, to_add_to_annotation)

\* structure.pdb after the hits were merged in: the hits whose key is new are
\* appended
MergeBlast(pdb, to_add_to_annotation) ==
    ODictUpdate(pdb, IF Len(pdb.keys) > 0
                     THEN ODictWithout(to_add_to_annotation, Range(pdb.keys))
                     ELSE to_add_to_annotation)

BlastStep_mut(st, seq_file, all_genes, blast_results) ==
    IF \/ seq_file = None
       \/ Len(st.pdb.keys) > 0 /\ ~all_genes
       \/ Len(blast_results) = 0
    THEN st
    ELSE [st EXCEPT !.pdb = BlastToAdd(blast_results, Len(blast_results))]

\* the structure annotation after the loop body for a gene with the
\* representative sequence file seq_file, when the file can be read and
\* BLAST answers blast_results
BlastStep(st, seq_file, all_genes, blast_results) ==
    IF \/ seq_file = None
       \/ Len(st.pdb.keys) > 0 /\ ~all_genes
       \/ Len(blast_results) = 0
    THEN st
    ELSE [st EXCEPT !.pdb = MergeBlast(@, BlastToAdd(blast_results, Len(blast_results)))]

blast_seqs_to_pdb_begin == \E all_genes \in BOOLEAN : Begin("blast_seqs_to_pdb", all_genes)

blast_seqs_to_pdb_step ==
    \E g \in GeneIds :
        /\ AtGene("blast_seqs_to_pdb", g)
        /\ LET seq_file == seq[g].representative.seq_file
               already_has_pdbs == Len(struct[g].pdb.keys) > 0
           IN IF seq_file = None \/ (already_has_pdbs /\ ~call.flag)
              THEN Continue /\ UNCHANGED struct
              ELSE \/ \* the sequence file cannot be read
                      Raise("IOError") /\ UNCHANGED struct
                   \/ \E blast_results \in BlastAnswers(g) :
                        /\ struct' = [struct EXCEPT ![g] =
                                         BlastStep(@, seq_file, call.flag, blast_results)]
                        /\ Continue
        /\ UNCHANGED <<genes, seq, io, missing_mapping, df_sequence_mapping, last, manual_set>>

blast_seqs_to_pdb_end == Return("blast_seqs_to_pdb")

----------------------------------------------------------------------------
(* manual_homology_models *)

\* the entries input_dict may hold for gene g, as the list of its
\* (hid, hdict) items; the empty list stands for a gene that is not in input_dict
ManualModels(g) ==
    IF g = "g1"
    THEN { <<>>,
           << [hid |-> "m1", hdict |-> [model_file |-> "m1.pdb", seq_coverage |-> 2]] >>,
           << [hid |-> "m1", hdict |-> [model_file |-> "m1.pdb"]] >>,
           << [hid |-> "m1", hdict |-> [model_file |-> "m1.pdb", seq_coverage |-> 1,
                                        c_score |-> 1]],
              [hid |-> "m2", hdict |-> [seq_coverage |-> 2]] >> }
    ELSE { <<>> }

\* the input dictionaries of manual_homology_models
InputDicts ==
    { d \in [GeneIds -> UNION { ManualModels(g) : g \in GeneIds }] :
        \A g \in GeneIds : d[g] \in ManualModels(g) }

Stored_mut(items, n) == Len(items)

\* the number of items stored before the loop over the items stops: all of
\* them, or those before the first one without a model_file
RECURSIVE Stored(_, _)
Stored(items, n) ==
    IF n > Len(items) \/ "model_file" \notin DOMAIN items[n].hdict THEN n - 1
    ELSE Stored(items, n + 1)

\* structure.homology after the first n items were stored
RECURSIVE StoreModels(_, _, _)
StoreModels(homology, items, n) ==
    IF n = 0 THEN homology
    ELSE ODictPut(StoreModels(homology, items, n - 1), items[n].hid, items[n].hdict)

manual_homology_models_begin ==
    /\ Idle
    /\ ncalls < MaxCalls
    /\ ncalls' = ncalls + 1
    /\ \E input_dict \in InputDicts :
         call' = [StartCall("manual_homology_models", FALSE) EXCEPT !.input = input_dict]
    /\ err' = "none"
    /\ io' = <<>>
    /\ UNCHANGED <<genes, seq, struct, missing_mapping, df_sequence_mapping, last, manual_set>>

manual_homology_models_step ==
    \E g \in GeneIds :
        /\ AtGene("manual_homology_models", g)
        /\ LET items == call.input[g]
               n == Stored(items, 1)
           IN /\ struct' = [struct EXCEPT ![g].homology = StoreModels(@, items, n)]
              /\ IF n < Len(items) THEN Raise("KeyError") ELSE Continue
        /\ UNCHANGED <<genes, seq, io, missing_mapping, df_sequence_mapping, last, manual_set>>

manual_homology_models_end == Return("manual_homology_models")

----------------------------------------------------------------------------
(* get_itasser_models *)

\* the model file I-TASSER made for gene g
ItasserModelFile(g) == IF g = "g1" THEN "g1_model1.pdb" ELSE "g2_model1.pdb"

\* what organize_itasser_models may answer for gene g: nothing, or the
\* description of the model
ItasserAnswers(g) ==
    { EmptyDict, [model_file |-> ItasserModelFile(g), c_score |-> 2] }
    \cup (IF g = "g1" THEN { [model_file |-> ItasserModelFile(g), c_score |-> 3] } ELSE { })

\* the record stored for a model: its sequence coverage is always 100%
ItasserRecord(itasser_info) == Update(itasser_info, [seq_coverage |-> 1])

\* the structure annotation after the loop body for gene g
ItasserStep(st, g, itasser_info) ==
    IF itasser_info # EmptyDict
    THEN [st EXCEPT !.homology = ODictPut(@, g, ItasserRecord(itasser_info))]
    ELSE st

get_itasser_models_begin == Begin("get_itasser_models", FALSE)

get_itasser_models_step ==
    \E g \in GeneIds :
        /\ AtGene("get_itasser_models", g)
        /\ \E itasser_info \in ItasserAnswers(g) :
             struct' = [struct EXCEPT ![g] = ItasserStep(@, g, itasser_info)]
        /\ Continue
        /\ UNCHANGED <<genes, seq, io, missing_mapping, df_sequence_mapping, last, manual_set>>

get_itasser_models_end == Return("get_itasser_models")

----------------------------------------------------------------------------
(* set_representative_structure *)

\* the values of sort_homology_by
SortKeys == {"seq_coverage", "c_score"}

\* a call of a collaborator, as recorded in io, and what it answered
Event(ev, g, pdb, chain, res) ==
    [ev |-> ev, gene |-> g, pdb |-> pdb, chain |-> chain, res |-> res]

\* the file download_structure writes for a PDB id
PdbFile(pdb) == pdb \o ".pdb"

\* the file write_pdb writes for a file and an out_suffix
CleanFile(file, out_suffix) == file \o "_" \o out_suffix

UseHomology_mut(always_use_homology, has_homology, has_pdb) ==
    has_homology /\ ~has_pdb

\* use_homology after the source selection
UseHomology(always_use_homology, has_homology, has_pdb) ==
    IF always_use_homology THEN has_homology
    ELSE has_homology /\ ~has_pdb

\* use_pdb after the source selection
UsePdb(always_use_homology, has_homology, has_pdb) ==
    IF always_use_homology THEN ~has_homology /\ has_pdb
    ELSE \/ has_homology /\ has_pdb
         \/ has_pdb /\ ~has_homology

\* convert_to_dict after the first n keys of structure.pdb: the chains of
\* each PDB id, the ids in the order of their first key
RECURSIVE convert_to_dict(_, _)
convert_to_dict(all_pdbs_and_chains, n) ==
    IF n = 0 THEN EmptyODict
    ELSE LET d == convert_to_dict(all_pdbs_and_chains, n - 1)
             x == all_pdbs_and_chains[n]
         IN ODictPut(d, x[1], IF x[1] \in Range(d.keys) THEN Append(d.val[x[1]], x[2])
                              ELSE <<x[2]>>)

CheckMore_mut(found_good_pdb) == FALSE

\* whether the loop over the chains goes on after a check
CheckMore(found_good_pdb) == ~found_good_pdb

\* the loop over the chains of one PDB id, from chain number c on: the chains
\* are checked in turn until one passes; a chain the file does not hold is a
\* KeyError
RECURSIVE CheckChains(_, _, _, _, _, _)
CheckChains(g, pdb, chains, c, qc, log) ==
    IF c > Len(chains) THEN [outcome |-> "none", id |-> NoStructure, log |-> log]
    ELSE LET chain == chains[c]
         IN IF qc[<<pdb, chain>>] = "nochain"
            THEN [outcome |-> "KeyError", id |-> NoStructure, log |-> log]
            ELSE LET found_good_pdb == qc[<<pdb, chain>>] = "pass"
                     checked == Append(log, Event("sequence_checker", g, pdb, chain,
                                                  found_good_pdb))
                 IN IF CheckMore(found_good_pdb)
                    THEN CheckChains(g, pdb, chains, c + 1, qc, checked)
                    ELSE [outcome |-> "found", id |-> <<pdb, chain>>,
                          log |-> Append(checked, Event("write_pdb", g, pdb, chain, TRUE))]

\* the loop over the PDB ids, from id number s on: each is downloaded and
\* its chains are checked
RECURSIVE CheckPdbs(_, _, _, _, _)
CheckPdbs(g, d, s, qc, log) ==
    IF s > Len(d.keys) THEN [outcome |-> "none", id |-> NoStructure, log |-> log]
    ELSE LET pdb == d.keys[s]
             r == CheckChains(g, pdb, d.val[pdb], 1, qc,
                              Append(log, Event("download_structure", g, pdb, "", TRUE)))
         IN IF r.outcome = "none" THEN CheckPdbs(g, d, s + 1, qc, r.log) ELSE r

PdbRepresentative_mut(pdb_dict, id) ==
    [structure_id |-> pdb_dict.keys[1],
     seq_coverage |-> pdb_dict.val[pdb_dict.keys[1]].seq_coverage,
     original_pdb_file |-> PdbFile(pdb_dict.keys[1][1]),
     clean_pdb_file |-> CleanFile(PdbFile(pdb_dict.keys[1][1]), pdb_dict.keys[1][2] \o "_clean")]

\* the representative record of a PDB chain that passed the check
PdbRepresentative(pdb_dict, id) ==
    [structure_id |-> id,
     seq_coverage |-> pdb_dict.val[id].seq_coverage,
     original_pdb_file |-> PdbFile(id[1]),
     clean_pdb_file |-> CleanFile(PdbFile(id[1]), id[2] \o "_clean")]

sorted_homology_ids_mut(hm, sort_homology_by) == hm.keys

\* the homology model ids, sorted by the field sort_homology_by, largest first
sorted_homology_ids(hm, sort_homology_by) ==
    LET r == [n \in 1..Len(hm.keys) |-> <<hm.keys[n], hm.val[hm.keys[n]][sort_homology_by]>>]
        sorted == sorted_by_second(r)
    IN [n \in 1..Len(sorted) |-> sorted[n][1]]

\* the homology path: the outcome for the representative record rep
HomologyPath(g, hm, rep, sort_homology_by, chain, log) ==
    IF \E x \in Range(hm.keys) : sort_homology_by \notin DOMAIN hm.val[x]
    THEN [rep |-> rep, error |-> "KeyError", chain |-> chain, io |-> log]
    ELSE LET top_homology == sorted_homology_ids(hm, sort_homology_by)[1]
             model == hm.val[top_homology]
         IN IF "seq_coverage" \notin DOMAIN model
            THEN [rep |-> rep, error |-> "KeyError", chain |-> chain, io |-> log]
            ELSE LET set == [rep EXCEPT !.structure_id = <<top_homology>>,
                                        !.seq_coverage = model.seq_coverage,
                                        !.original_pdb_file = model.model_file]
                 IN IF ~chain
                    THEN [rep |-> set, error |-> "UnboundLocalError", chain |-> chain,
                          io |-> log]
                    ELSE [rep |-> [set EXCEPT !.clean_pdb_file =
                                       CleanFile(model.model_file, "clean")],
                          error |-> "none", chain |-> chain,
                          io |-> Append(log, Event("write_pdb", g, top_homology, "", TRUE))]

NoPdbFound_mut(rep, log) ==
    [rep |-> rep, error |-> "IndexError", chain |-> TRUE, io |-> log]

\* the loop body when no chain passed the check and there is no homology
\* model to fall back on: the record stays and the loop goes on
NoPdbFound(rep, log) ==
    [rep |-> rep, error |-> "none", chain |-> TRUE, io |-> log]

Fallback_mut(has_homology) == FALSE

\* use_homology after the PDB loop has ended with no chain passing the check
Fallback(has_homology) == has_homology

\* the PDB path: the outcome for the representative record rep; ref tells
\* whether the representative sequence file can be read, qc the outcome of
\* the check of each chain
PdbPath(g, st, seq_file, sort_homology_by, chain, ref, qc, log) ==
    IF seq_file = None
    THEN [rep |-> st.representative, error |-> "AttributeError", chain |-> chain, io |-> log]
    ELSE LET read == Append(log, Event("SeqIO.read", g, "", "", ref = "ok"))
         IN IF ref = "nofile"
            THEN [rep |-> st.representative, error |-> "IOError", chain |-> chain, io |-> read]
            ELSE LET r == CheckPdbs(g, convert_to_dict(st.pdb.keys, Len(st.pdb.keys)), 1, qc,
                                    read)
                 IN CASE r.outcome = "found" ->
                           [rep |-> PdbRepresentative(st.pdb, r.id), error |-> "none",
                            chain |-> TRUE, io |-> r.log]
                      [] r.outcome = "KeyError" ->
                           [rep |-> st.representative, error |-> "KeyError", chain |-> TRUE,
                            io |-> r.log]
                      [] OTHER ->
                           IF Fallback(Len(st.homology.keys) > 0)
                           THEN HomologyPath(g, st.homology, st.representative,
                                             sort_homology_by, TRUE, r.log)
                           ELSE NoPdbFound(st.representative, r.log)

\* the loop body for gene g
RepStructBody(g, st, seq_file, always_use_homology, sort_homology_by, chain, ref, qc, log) ==
    LET has_homology == Len(st.homology.keys) > 0
        has_pdb == Len(st.pdb.keys) > 0
    IN CASE ~has_pdb /\ ~has_homology ->
              [rep |-> st.representative, error |-> "none", chain |-> chain, io |-> log]
         [] UsePdb(always_use_homology, has_homology, has_pdb) ->
              PdbPath(g, st, seq_file, sort_homology_by, chain, ref, qc, log)
         [] UseHomology(always_use_homology, has_homology, has_pdb) ->
              HomologyPath(g, st.homology, st.representative, sort_homology_by, chain, log)
         [] OTHER ->
              [rep |-> st.representative, error |-> "none", chain |-> chain, io |-> log]

set_representative_structure_begin ==
    /\ Idle
    /\ ncalls < MaxCalls
    /\ ncalls' = ncalls + 1
    /\ \E always_use_homology \in BOOLEAN, sort_homology_by \in SortKeys :
         call' = [StartCall("set_representative_structure", always_use_homology)
                    EXCEPT !.sortby = sort_homology_by]
    /\ err' = "none"
    /\ io' = <<>>
    /\ UNCHANGED <<genes, seq, struct, missing_mapping, df_sequence_mapping, last, manual_set>>

set_representative_structure_step ==
    \E g \in GeneIds :
        /\ AtGene("set_representative_structure", g)
        /\ \E ref \in {"ok", "nofile"},
              qc \in [Range(struct[g].pdb.keys) -> {"pass", "fail", "nochain"}] :
             LET r == RepStructBody(g, struct[g], seq[g].representative.seq_file, call.flag,
                                    call.sortby, call.chain, ref, qc, io)
             IN /\ struct' = [struct EXCEPT ![g].representative = r.rep]
                /\ io' = r.io
                /\ IF r.error = "none"
                   THEN /\ call' = [call EXCEPT !.i = @ + 1, !.chain = r.chain]
                        /\ UNCHANGED err
                   ELSE /\ call' = IdleCall
                        /\ err' = r.error
        /\ UNCHANGED <<genes, seq, ncalls, missing_mapping, df_sequence_mapping, last, manual_set>>

set_representative_structure_end == Return("set_representative_structure")

----------------------------------------------------------------------------
(* The project *)

\* the genes setter: list(set(genes_list)) gives the ids in an arbitrary order
Init ==
    /\ genes \in { <<"g1", "g2">>, <<"g2", "g1">> }
    /\ seq = [g \in GeneIds |-> DefaultSequence]
    /\ struct = [g \in GeneIds |-> DefaultStructure]
    /\ call = IdleCall
    /\ err = "none"
    /\ ncalls = 0
    /\ io = <<>>
    /\ missing_mapping = <<>>
    /\ df_sequence_mapping = <<>>
    /\ last = [g \in GeneIds |-> "none"]
    /\ manual_set = {}

\* the sequence stage of the pipeline
Next ==
    \/ kegg_mapping_and_metadata_begin
    \/ kegg_mapping_and_metadata_step
    \/ kegg_mapping_and_metadata_end
    \/ uniprot_mapping_and_metadata_begin
    \/ uniprot_mapping_and_metadata_step
    \/ uniprot_mapping_and_metadata_end
    \/ manual_uniprot_mapping
    \/ manual_seq_mapping
    \/ set_representative_sequence_begin
    \/ set_representative_sequence_step
    \/ set_representative_sequence_end

Spec == Init /\ [][Next]_vars

----------------------------------------------------------------------------
(* The structure stage *)

\* the structure stage starts when the sequence stage has left each gene
\* with a representative sequence or without one: here g1 has none or the
\* one of manual_uniprot_mapping, g2 the one of manual_seq_mapping
InitStruct ==
    /\ genes \in { <<"g1", "g2">>, <<"g2", "g1">> }
    /\ \E r1 \in { DefaultSeqRecord, ManualUniprotRecord(DefaultSeqRecord, "P1", FullMeta) } :
         seq = [g \in GeneIds |->
                  [DefaultSequence EXCEPT !.representative =
                      IF g = "g1" THEN r1 ELSE ManualSeqRecord(DefaultSeqRecord, g, 1)]]
    /\ struct = [g \in GeneIds |-> DefaultStructure]
    /\ call = IdleCall
    /\ err = "none"
    /\ ncalls = 0
    /\ io = <<>>
    /\ missing_mapping = <<>>
    /\ df_sequence_mapping = <<>>
    /\ last = [g \in GeneIds |-> "none"]
    /\ manual_set = { g \in GeneIds : seq[g].representative # DefaultSeqRecord }

NextStruct ==
    \/ map_uniprot_to_pdb_begin
    \/ map_uniprot_to_pdb_step
    \/ map_uniprot_to_pdb_end
    \/ blast_seqs_to_pdb_begin
    \/ blast_seqs_to_pdb_step
    \/ blast_seqs_to_pdb_end
    \/ manual_homology_models_begin
    \/ manual_homology_models_step
    \/ manual_homology_models_end
    \/ get_itasser_models_begin
    \/ get_itasser_models_step
    \/ get_itasser_models_end
    \/ set_representative_structure_begin
    \/ set_representative_structure_step
    \/ set_representative_structure_end

SpecStruct == InitStruct /\ [][NextStruct]_vars

\* the ingestion of structures from the services alone
NextIngest ==
    \/ map_uniprot_to_pdb_begin
    \/ map_uniprot_to_pdb_step
    \/ map_uniprot_to_pdb_end
    \/ blast_seqs_to_pdb_begin
    \/ blast_seqs_to_pdb_step
    \/ blast_seqs_to_pdb_end
    \/ get_itasser_models_begin
    \/ get_itasser_models_step
    \/ get_itasser_models_end

SpecIngest == InitStruct /\ [][NextIngest]_vars

\* the PDB mappings of a project whose representative sequences come from
\* the manual mappings and from the resolver over KEGG annotations
NextPdb ==
    \/ kegg_mapping_and_metadata_begin
    \/ kegg_mapping_and_metadata_step
    \/ kegg_mapping_and_metadata_end
    \/ manual_uniprot_mapping
    \/ manual_seq_mapping
    \/ set_representative_sequence_begin
    \/ set_representative_sequence_step
    \/ set_representative_sequence_end
    \/ map_uniprot_to_pdb_begin
    \/ map_uniprot_to_pdb_step
    \/ map_uniprot_to_pdb_end
    \/ blast_seqs_to_pdb_begin
    \/ blast_seqs_to_pdb_step
    \/ blast_seqs_to_pdb_end

SpecPdb == Init /\ [][NextPdb]_vars

----------------------------------------------------------------------------
(* The genes of the project: the genes setter and add_genes_by_id *)

\* the lists of gene ids a caller may give, repeated ids included
GenesLists == UNION { [1..n -> GeneIds] : n \in 0..2 }

\* list(set(genes_list)): the distinct ids of the list, in any order
ListOfSet(genes_list) ==
    { l \in UNION { [1..n -> GeneIds] : n \in 0..2 } :
        Range(l) = Range(genes_list) /\ Len(l) = Cardinality(Range(genes_list)) }

union_mut(dl, iterable) == dl \o iterable

\* DictList.union: appends the elements whose id is not in the list yet
RECURSIVE union(_, _)
union(dl, iterable) ==
    IF iterable = <<>> THEN dl
    ELSE union(IF Head(iterable) \in Range(dl) THEN dl ELSE Append(dl, Head(iterable)),
               Tail(iterable))

\* what DictList.union did with each element: one event for each new gene
UnionLog(dl, iterable) ==
    [n \in 1..Len(iterable) |->
        Event("DictList.union", iterable[n], None, None,
              IF iterable[n] \in Range(dl) THEN "skipped" ELSE "appended")]

\* the project after construction from a list of gene ids, or from none
InitGenes ==
    /\ genes \in UNION { ListOfSet(genes_list) : genes_list \in GenesLists }
    /\ seq = [g \in GeneIds |-> DefaultSequence]
    /\ struct = [g \in GeneIds |-> DefaultStructure]
    /\ call = IdleCall
    /\ err = "none"
    /\ ncalls = 0
    /\ io = <<>>
    /\ missing_mapping = <<>>
    /\ df_sequence_mapping = <<>>
    /\ last = [g \in GeneIds |-> "none"]
    /\ manual_set = {}

\* the Gene objects union appended own the default annotations they were
\* built with; the genes union skipped are the objects they were
add_genes_by_id ==
    /\ Idle
    /\ ncalls < MaxCalls
    /\ ncalls' = ncalls + 1
    /\ \E genes_list \in GenesLists :
         \E new_genes \in ListOfSet(genes_list) :
            /\ genes' = union(genes, new_genes)
            /\ io' = UnionLog(genes, new_genes)
    /\ seq' = [g \in GeneIds |->
                 IF \E n \in (Len(genes) + 1)..Len(genes') : genes'[n] = g
                 THEN DefaultSequence ELSE seq[g]]
    /\ struct' = [g \in GeneIds |->
                    IF \E n \in (Len(genes) + 1)..Len(genes') : genes'[n] = g
                    THEN DefaultStructure ELSE struct[g]]
    /\ last' = [g \in GeneIds |->
                  IF \E n \in (Len(genes) + 1)..Len(genes') : genes'[n] = g
                  THEN "none" ELSE last[g]]
    /\ err' = "none"
    /\ UNCHANGED <<call, missing_mapping, df_sequence_mapping, manual_set>>

\* a project that grows while KEGG annotations are saved in its genes
NextGenes ==
    \/ add_genes_by_id
    \/ kegg_mapping_and_metadata_begin
    \/ kegg_mapping_and_metadata_step
    \/ kegg_mapping_and_metadata_end

SpecGenes == InitGenes /\ [][NextGenes]_vars

----------------------------------------------------------------------------
(* Properties of set_representative_sequence *)

\* the loop of set_representative_sequence is about to run its body for gene g
Resolving(g) == AtGene("set_representative_sequence", g)

\* the entry of the 'uniprot' dict that ranks first: the first one, in iteration
\* order, whose score no other entry exceeds
TopRanked(uni) ==
    LET ks == uni.keys
        score(i) == (IF uni.val[ks[i]].reviewed THEN 1 ELSE 0) + Len(uni.val[ks[i]].pdbs)
        top == CHOOSE i \in 1..Len(ks) :
                   /\ \A j \in 1..Len(ks) : score(j) <= score(i)
                   /\ \A j \in 1..(i - 1) : score(j) < score(i)
    IN  uni.val[ks[top]]

\* record rep with the fields of entry e that a representative record has
TakenFrom(rep, e) ==
    [k \in DOMAIN rep |->
        IF k \in DOMAIN e /\ k \in {"kegg_id", "uniprot_acc", "pdbs", "seq_len",
                                    "seq_file", "metadata_file"}
        THEN e[k] ELSE rep[k]]

\* C1: once manual_seq_mapping or manual_uniprot_mapping has written the
\* representative of a gene, no later set_representative_sequence changes it,
\* whatever the manual input was.
C1_ManualRepresentativeKept ==
    [][\A g \in GeneIds :
          (g \in manual_set /\ Resolving(g))
              => seq'[g].representative = seq[g].representative]_vars

\* C2: a gene whose representative seq_len is > 0 takes the already-set branch
\* and keeps every field of its representative; and a second call in a row
\* leaves the representative as the first call left it.
C2_Idempotent ==
    [][\A g \in GeneIds :
          Resolving(g) =>
              /\ seq[g].representative.seq_len > 0
                    => /\ seq'[g].representative = seq[g].representative
                       /\ last'[g] = "AlreadySet"
              /\ last[g] # "none"
                    => seq'[g].representative = seq[g].representative]_vars

\* a second call in a row found the representative the first call had set
C2_Witness ==
    \E g \in GeneIds :
        /\ last[g] = "AlreadySet"
        /\ g \notin manual_set
        /\ seq[g].representative.seq_len > 0

\* C3: with an unset representative, KEGG seq_len > 0 and no UniProt entry, the
\* representative becomes the KEGG record, field for field, and the KEGG record
\* stays as it was.
C3_KeggOnly ==
    [][\A g \in GeneIds :
          ( /\ Resolving(g)
            /\ seq[g].representative.seq_len = 0
            /\ seq[g].kegg.seq_len > 0
            /\ Len(seq[g].uniprot.keys) = 0 )
          => /\ \A k \in {"uniprot_acc", "kegg_id", "seq_len", "pdbs", "seq_file",
                          "metadata_file"} :
                    seq'[g].representative[k] = seq[g].kegg[k]
             /\ DOMAIN seq'[g].representative = DOMAIN seq[g].kegg
             /\ seq'[g].kegg = seq[g].kegg]_vars

\* the representative was set from KEGG for a gene without UniProt entries
C3_Witness ==
    \E g \in GeneIds :
        /\ last[g] = "KEGG"
        /\ Len(seq[g].uniprot.keys) = 0
        /\ seq[g].kegg.pdbs # <<>>
        /\ seq[g].representative.seq_file = KeggSeqFile(g)

\* C4: with an unset representative, KEGG seq_len = 0 and UniProt entries, the
\* representative is set from the entry with the largest score
\* (1 if reviewed else 0) + number of pdbs, the first such entry in iteration
\* order; the result is a function of the mapping.
C4_UniprotOnly ==
    [][\A g \in GeneIds :
          ( /\ Resolving(g)
            /\ seq[g].representative.seq_len = 0
            /\ seq[g].kegg.seq_len = 0
            /\ Len(seq[g].uniprot.keys) > 0 )
          => seq'[g].representative =
                 TakenFrom(seq[g].representative, TopRanked(seq[g].uniprot))]_vars

\* two different entries with the same score, and the first was taken
C4_Witness ==
    \E g \in GeneIds :
        LET uni == seq[g].uniprot
        IN  /\ last[g] = "UniProt"
            /\ seq[g].kegg.seq_len = 0
            /\ Len(uni.keys) = 2
            /\ uni.val[uni.keys[1]].reviewed # uni.val[uni.keys[2]].reviewed
            /\ Len(uni.val[uni.keys[1]].pdbs) # Len(uni.val[uni.keys[2]].pdbs)
            /\ uni.val[uni.keys[1]].reviewed = (uni.val[uni.keys[1]].pdbs = <<>>)
            /\ uni.val[uni.keys[2]].reviewed = (uni.val[uni.keys[2]].pdbs = <<>>)
            /\ seq[g].representative.uniprot_acc = uni.val[uni.keys[1]].uniprot_acc
            /\ seq[g].representative.pdbs = uni.val[uni.keys[1]].pdbs

C6_DocstringRule ==
    [][\A g \in GeneIds :
          ( /\ Resolving(g)
            /\ g \notin manual_set
            /\ seq[g].representative.seq_len = 0
            /\ seq[g].kegg.seq_len > 0
            /\ Len(seq[g].uniprot.keys) > 0 )
          => ( last'[g] = "KEGG"
                 <=> /\ Len(seq[g].kegg.pdbs) > 0
                     /\ \A u \in Range(seq[g].uniprot.keys) :
                            Len(seq[g].uniprot.val[u].pdbs) = 0 )]_vars

\* C7: with an unset representative, KEGG seq_len = 0 and no UniProt entry, the
\* representative keeps its value, no error is raised and the loop goes on to
\* the next gene.
C7_Unresolved ==
    [][\A g \in GeneIds :
          ( /\ Resolving(g)
            /\ seq[g].representative.seq_len = 0
            /\ seq[g].kegg.seq_len = 0
            /\ Len(seq[g].uniprot.keys) = 0 )
          => /\ seq'[g].representative = seq[g].representative
             /\ err' = "none"
             /\ call'.op = "set_representative_sequence"
             /\ call'.i = call.i + 1]_vars

\* an unresolved gene was passed and the gene after it was resolved
C7_Witness ==
    /\ Idle
    /\ err = "none"
    /\ last[genes[1]] = "Unresolved"
    /\ last[genes[2]] \in {"KEGG", "UniProt"}
    /\ seq[genes[1]].representative = DefaultSeqRecord
    /\ seq[genes[2]].representative.seq_len > 0

----------------------------------------------------------------------------
(* Properties of set_representative_structure *)

\* the loop of set_representative_structure is about to run its body for gene g
ResolvingStructure(g) == AtGene("set_representative_structure", g)

\* the loop body of set_representative_structure runs for gene g in this step
StructureStep(g) == ResolvingStructure(g) /\ call' # call

\* the collaborator calls made for gene g in the running call
EventsOf(log, g) == SelectSeq(log, LAMBDA e : e.gene = g)

\* the calls of the sequence checker among them
ChecksOf(log, g) == SelectSeq(log, LAMBDA e : e.gene = g /\ e.ev = "sequence_checker")

\* the calls that belong to the PDB path
PdbPathEvents(log, g) ==
    { e \in Range(EventsOf(log, g)) :
        e.ev \in {"SeqIO.read", "download_structure", "sequence_checker"} }

\* the PDB path runs first: the first collaborator call reads the representative sequence
PdbPathFirst(log, g) == Len(EventsOf(log, g)) > 0 /\ EventsOf(log, g)[1].ev = "SeqIO.read"

\* the structure ids of the homology models of a structure annotation
HomologyIds(st) == { <<k>> : k \in Range(st.homology.keys) }

\* the order in which the candidates are to be checked: key i comes before key j
\* when its PDB id is inserted first, or they have the same PDB id and i < j
FirstPos(keys, i) == CHOOSE j \in 1..Len(keys) :
    /\ keys[j][1] = keys[i][1]
    /\ \A k \in 1..(j - 1) : keys[k][1] # keys[i][1]

Before(keys, i, j) ==
    \/ FirstPos(keys, i) < FirstPos(keys, j)
    \/ FirstPos(keys, i) = FirstPos(keys, j) /\ i < j

QCOrder(keys) ==
    [r \in 1..Len(keys) |->
        keys[CHOOSE i \in 1..Len(keys) :
                Cardinality({ j \in 1..Len(keys) : Before(keys, j, i) }) = r - 1]]

\* C8: once a gene's structure_id is not None, no step changes the gene's
\* structure.representative (the representative structure is final).
C8_RepresentativeStructureFinal ==
    [][\A g \in GeneIds :
          struct[g].representative.structure_id # NoStructure
          => struct'[g].representative = struct[g].representative]_vars

\* C9: source selection of set_representative_structure.  With
\* always_use_homology the homology path is taken whenever the gene has a
\* homology model and no PDB chain is read, downloaded or checked, else the
\* PDB path if it has PDB entries; without it the PDB path runs first
\* whenever the gene has a PDB entry, and the homology path alone when it
\* has none; a gene with neither keeps its record and the loop goes on.
C9_SourceSelection ==
    [][\A g \in GeneIds :
          StructureStep(g) =>
            LET has_homology == Len(struct[g].homology.keys) > 0
                has_pdb == Len(struct[g].pdb.keys) > 0
                homology_only ==
                    /\ PdbPathEvents(io', g) = {}
                    /\ err' \in {"none", "KeyError", "UnboundLocalError"}
                    /\ err' \in {"none", "UnboundLocalError"}
                       => struct'[g].representative.structure_id \in HomologyIds(struct[g])
            IN /\ call.flag /\ has_homology => homology_only
               /\ call.flag /\ ~has_homology /\ has_pdb => PdbPathFirst(io', g)
               /\ ~call.flag /\ has_pdb => PdbPathFirst(io', g)
               /\ ~call.flag /\ ~has_pdb /\ has_homology => homology_only
               /\ ~has_pdb /\ ~has_homology =>
                     /\ struct'[g] = struct[g]
                     /\ EventsOf(io', g) = <<>>
                     /\ err' = "none"
                     /\ call' = [call EXCEPT !.i = @ + 1]]_vars

\* a call with always_use_homology has passed a gene that has PDB entries
\* and homology models: its representative is a homology model and no PDB
\* chain was checked for it
C9_Witness ==
    /\ call.op = "set_representative_structure"
    /\ call.flag
    /\ \E g \in GeneIds :
         /\ \E n \in 1..(call.i - 1) : n <= Len(genes) /\ genes[n] = g
         /\ Len(struct[g].pdb.keys) > 0
         /\ Len(struct[g].homology.keys) > 0
         /\ struct[g].representative.structure_id \in HomologyIds(struct[g])
         /\ PdbPathEvents(io, g) = {}

\* C10: on the PDB path the chains are checked in the order of QCOrder; the
\* first chain that passes the check becomes the representative, and after
\* it no chain is checked, no structure downloaded and no other chain
\* cleaned; when no chain passes, no chain becomes the representative.
C10_FirstPassingWins ==
    [][\A g \in GeneIds :
          StructureStep(g) =>
            LET checks == ChecksOf(io', g)
                order == QCOrder(struct[g].pdb.keys)
                downloads == { e.pdb : e \in { x \in Range(EventsOf(io', g)) :
                                                  x.ev = "download_structure" } }
                cleaned == { <<e.pdb, e.chain>> : e \in { x \in Range(EventsOf(io', g)) :
                                                  x.ev = "write_pdb" /\ x.chain # "" } }
            IN /\ Len(checks) <= Len(order)
               /\ \A k \in 1..Len(checks) :
                    /\ <<checks[k].pdb, checks[k].chain>> = order[k]
                    /\ checks[k].res =>
                         /\ k = Len(checks)
                         /\ struct'[g].representative.structure_id = order[k]
                         /\ downloads = { order[j][1] : j \in 1..k }
                         /\ cleaned = { order[k] }
               /\ (\A k \in 1..Len(checks) : ~checks[k].res) =>
                    /\ cleaned = {}
                    /\ \/ struct'[g].representative = struct[g].representative
                       \/ struct'[g].representative.structure_id \in HomologyIds(struct[g])]_vars

\* a gene has three candidates, inserted as (1abc, A), (2xyz, A), (1abc, B);
\* (1abc, A) was checked and failed, then (1abc, B) was checked, passed and
\* became the representative; 2xyz was neither downloaded nor checked
C10_Witness ==
    \E g \in GeneIds :
      /\ struct[g].pdb.keys = << <<"1abc", "A">>, <<"2xyz", "A">>, <<"1abc", "B">> >>
      /\ Len(ChecksOf(io, g)) = 2
      /\ ~ChecksOf(io, g)[1].res
      /\ ChecksOf(io, g)[2].res
      /\ struct[g].representative.structure_id = <<"1abc", "B">>
      /\ \A e \in Range(EventsOf(io, g)) : e.pdb # "2xyz"


----------------------------------------------------------------------------
(* Properties of the homology path *)

\* position n of the mapping hm holds a model that the sort puts first: no
\* model has a larger value of the field, and no earlier model an equal one
IsTop(hm, field, n) ==
    /\ \A m \in 1..Len(hm.keys) : hm.val[hm.keys[m]][field] <= hm.val[hm.keys[n]][field]
    /\ \A m \in 1..(n - 1) : hm.val[hm.keys[m]][field] < hm.val[hm.keys[n]][field]

\* the id of the top-ranked model
TopModel(hm, field) == hm.keys[CHOOSE n \in 1..Len(hm.keys) : IsTop(hm, field, n)]

\* the ranking is defined: every model has the sort field, and the top one a
\* sequence coverage
RankingDefined(hm, field) ==
    /\ Len(hm.keys) > 0
    /\ \A k \in Range(hm.keys) : field \in DOMAIN hm.val[k]
    /\ "seq_coverage" \in DOMAIN hm.val[TopModel(hm, field)]

\* every PDB chain of the gene was checked in this call and none passed
AllFailed(log, g, st) ==
    /\ Len(ChecksOf(log, g)) = Len(st.pdb.keys)
    /\ \A k \in 1..Len(ChecksOf(log, g)) : ~ChecksOf(log, g)[k].res

\* gene g has been passed by the loop of the running call
Passed(g) == \E n \in 1..(call.i - 1) : n <= Len(genes) /\ genes[n] = g

\* C11: without always_use_homology, for a gene with PDB entries and
\* homology models (whose ranking is defined): when every PDB chain has
\* failed the check, the step ends without error and the representative
\* structure_id is the id of the top-ranked homology model.
C11_HomologyFallback ==
    [][\A g \in GeneIds :
          (/\ StructureStep(g)
           /\ ~call.flag
           /\ Len(struct[g].pdb.keys) > 0
           /\ RankingDefined(struct[g].homology, call.sortby)
           /\ AllFailed(io', g, struct[g]))
          => /\ err' = "none"
             /\ struct'[g].representative.structure_id =
                   <<TopModel(struct[g].homology, call.sortby)>>]_vars

\* a call without always_use_homology has passed a gene with PDB entries
\* and homology models: all its chains were checked and failed, and its
\* representative is a homology model
C11_Witness ==
    /\ call.op = "set_representative_structure"
    /\ ~call.flag
    /\ \E g \in GeneIds :
         /\ Passed(g)
         /\ Len(struct[g].pdb.keys) > 0
         /\ Len(struct[g].homology.keys) > 0
         /\ AllFailed(io, g, struct[g])
         /\ struct[g].representative.structure_id \in HomologyIds(struct[g])


\* the step for gene g takes the homology path: the gene has a homology
\* model and always_use_homology is set, or it has no PDB entry, or every
\* PDB chain has failed the check
OnHomologyPath(g) ==
    /\ Len(struct[g].homology.keys) > 0
    /\ \/ call.flag
       \/ Len(struct[g].pdb.keys) = 0
       \/ AllFailed(io', g, struct[g])

\* C12: on the homology path the representative is the model with the
\* largest value of the sort field, the first such model in iteration order
\* among equals: structure_id is its id, seq_coverage and original_pdb_file
\* are its fields; the sequence checker is called for PDB chains only.  When
\* a model lacks the sort field, or the top model its seq_coverage, the step
\* raises KeyError and the record is unchanged.
C12_HomologyRanking ==
    [][\A g \in GeneIds :
          StructureStep(g) /\ OnHomologyPath(g) =>
            LET hm == struct[g].homology
                rep == struct'[g].representative
            IN /\ \A k \in 1..Len(ChecksOf(io', g)) :
                    <<ChecksOf(io', g)[k].pdb, ChecksOf(io', g)[k].chain>>
                        \in Range(struct[g].pdb.keys)
               /\ IF RankingDefined(hm, call.sortby)
                  THEN LET top == TopModel(hm, call.sortby)
                       IN /\ rep.structure_id = <<top>>
                          /\ rep.seq_coverage = hm.val[top].seq_coverage
                          /\ rep.original_pdb_file = hm.val[top].model_file
                          /\ err' \in {"none", "UnboundLocalError"}
                  ELSE /\ err' = "KeyError"
                       /\ rep = struct[g].representative]_vars

\* a gene has two homology models and the second in iteration order, the one
\* with the larger sequence coverage, is its representative
C12_Witness ==
    \E g \in GeneIds :
      LET hm == struct[g].homology
      IN /\ Len(hm.keys) = 2
         /\ "seq_coverage" \in DOMAIN hm.val[hm.keys[1]]
         /\ "seq_coverage" \in DOMAIN hm.val[hm.keys[2]]
         /\ hm.val[hm.keys[2]].seq_coverage > hm.val[hm.keys[1]].seq_coverage
         /\ struct[g].representative.structure_id = <<hm.keys[2]>>
         /\ struct[g].representative.seq_coverage = hm.val[hm.keys[2]].seq_coverage
         /\ struct[g].representative.original_pdb_file = hm.val[hm.keys[2]].model_file


\* C13: without always_use_homology, the step for a gene that has homology
\* models (whose ranking is defined) and no PDB entry ends without error
\* and with the representative fully recorded: structure_id the id of the
\* top model, its seq_coverage and original_pdb_file, and a clean_pdb_file.
C13_HomologyOnlyCompletes ==
    [][\A g \in GeneIds :
          (/\ StructureStep(g)
           /\ ~call.flag
           /\ Len(struct[g].pdb.keys) = 0
           /\ RankingDefined(struct[g].homology, call.sortby))
          => LET top == TopModel(struct[g].homology, call.sortby)
                 rep == struct'[g].representative
             IN /\ err' = "none"
                /\ rep.structure_id = <<top>>
                /\ rep.seq_coverage = struct[g].homology.val[top].seq_coverage
                /\ rep.original_pdb_file = struct[g].homology.val[top].model_file
                /\ rep.clean_pdb_file # None]_vars


\* C14: a step that enters the PDB path raises no error, whatever chain
\* sequence or sequence file is missing: a missing one counts as a failed
\* check, and the loop goes on to the next gene.
C14_MissingFilesSkipped ==
    [][\A g \in GeneIds :
          (/\ StructureStep(g)
           /\ PdbPathFirst(io', g)
           /\ Len(struct[g].homology.keys) > 0 => RankingDefined(struct[g].homology, call.sortby))
          => /\ err' = "none"
             /\ call'.op = "set_representative_structure"
             /\ call'.i = call.i + 1]_vars


----------------------------------------------------------------------------
(* Properties of the structure ingestion *)

\* the loop body of ingestion method op runs for gene g in this step
IngestStep(op, g) == AtGene(op, g) /\ call' # call

\* every entry of the mapping old is an entry of the mapping new
EntriesKept(old, new) ==
    \A k \in Range(old.keys) : k \in Range(new.keys) /\ new.val[k] = old.val[k]

Annotation(g) == [sequence |-> seq[g], structure |-> struct[g]]

\* the annotation record a of gene g after one ingestion of each provenance,
\* run with its default parameters, for a given answer of its collaborator
AfterKegg(a, kegg_dict) == [a EXCEPT !.sequence = KeggStep(@, kegg_dict)]

AfterUniprot(a, g, answer) == [a EXCEPT !.sequence = UniprotStep(@, g, answer)]

AfterRanked(a, best_structures) ==
    [a EXCEPT !.structure =
        RankedStep(@, a.sequence.representative.uniprot_acc, best_structures)]

AfterBlast(a, blast_results) ==
    [a EXCEPT !.structure =
        BlastStep(@, a.sequence.representative.seq_file, FALSE, blast_results)]

AfterItasser(a, g, itasser_info) == [a EXCEPT !.structure = ItasserStep(@, g, itasser_info)]

\* map_uniprot_to_pdb and blast_seqs_to_pdb give the same record in both orders
RankedBlastCommute(g) ==
    \A bs \in BestStructuresAnswers, br \in BlastAnswers(g) :
       AfterBlast(AfterRanked(Annotation(g), bs), br)
          = AfterRanked(AfterBlast(Annotation(g), br), bs)

\* every other pair of ingestions of different provenance gives the same
\* record in both orders
OtherPairsCommute(g) ==
    LET a == Annotation(g)
    IN /\ \A d \in KeggDicts(g), x \in UniprotAnswers(g) :
            AfterUniprot(AfterKegg(a, d), g, x) = AfterKegg(AfterUniprot(a, g, x), d)
       /\ \A d \in KeggDicts(g), bs \in BestStructuresAnswers :
            AfterRanked(AfterKegg(a, d), bs) = AfterKegg(AfterRanked(a, bs), d)
       /\ \A d \in KeggDicts(g), br \in BlastAnswers(g) :
            AfterBlast(AfterKegg(a, d), br) = AfterKegg(AfterBlast(a, br), d)
       /\ \A d \in KeggDicts(g), i \in ItasserAnswers(g) :
            AfterItasser(AfterKegg(a, d), g, i) = AfterKegg(AfterItasser(a, g, i), d)
       /\ \A x \in UniprotAnswers(g), bs \in BestStructuresAnswers :
            AfterRanked(AfterUniprot(a, g, x), bs) = AfterUniprot(AfterRanked(a, bs), g, x)
       /\ \A x \in UniprotAnswers(g), br \in BlastAnswers(g) :
            AfterBlast(AfterUniprot(a, g, x), br) = AfterUniprot(AfterBlast(a, br), g, x)
       /\ \A x \in UniprotAnswers(g), i \in ItasserAnswers(g) :
            AfterItasser(AfterUniprot(a, g, x), g, i) = AfterUniprot(AfterItasser(a, g, i), g, x)
       /\ \A bs \in BestStructuresAnswers, i \in ItasserAnswers(g) :
            AfterItasser(AfterRanked(a, bs), g, i) = AfterRanked(AfterItasser(a, g, i), bs)
       /\ \A br \in BlastAnswers(g), i \in ItasserAnswers(g) :
            AfterItasser(AfterBlast(a, br), g, i) = AfterBlast(AfterItasser(a, g, i), br)

\* C16: for every gene and every annotation record it can have between two
\* calls, any two ingestions of different provenance (KEGG, UniProt,
\* ranked-PDB, BLAST, homology) give the same record in both orders.
C16_IngestionCommutes ==
    \A g \in GeneIds : Idle => RankedBlastCommute(g) /\ OtherPairsCommute(g)

\* C16 as amended: any two ingestions of different provenance other than the
\* pair ranked-PDB and BLAST give the same record in both orders.
C16_DisjointSlotsCommute ==
    \A g \in GeneIds : Idle => OtherPairsCommute(g)

\* between two calls, a gene holds ranked PDB entries and a homology model
C16_Witness ==
    /\ Idle
    /\ \E g \in GeneIds :
         /\ Len(struct[g].pdb.keys) > 0
         /\ "rank" \in DOMAIN struct[g].pdb.val[struct[g].pdb.keys[1]]
         /\ Len(struct[g].homology.keys) > 0


----------------------------------------------------------------------------
(* Properties of the calls as a whole *)

\* the outcome of set_representative_structure for gene g: the record it
\* leaves as representative and the error it raises
Outcome(r) == [rep |-> r.rep, error |-> r.error]

\* C17: in a call of set_representative_structure, the outcome for a gene is
\* the one the gene has when it is the first gene of the iteration (no gene
\* came before it in the call), whatever genes were iterated before it.
C17_PerGeneIndependent ==
    \A g \in GeneIds :
       ResolvingStructure(g) =>
          \A ref \in {"ok", "nofile"},
             qc \in [Range(struct[g].pdb.keys) -> {"pass", "fail", "nochain"}] :
             Outcome(RepStructBody(g, struct[g], seq[g].representative.seq_file, call.flag,
                                   call.sortby, call.chain, ref, qc, io))
               = Outcome(RepStructBody(g, struct[g], seq[g].representative.seq_file, call.flag,
                                       call.sortby, FALSE, ref, qc, io))


\* the items of the input of gene g that lack the model_file field
Malformed(items) == { n \in 1..Len(items) : "model_file" \notin DOMAIN items[n].hdict }

\* the record of item it is stored in the homology mapping hm
StoredIn(hm, it) == it.hid \in Range(hm.keys) /\ hm.val[it.hid] = it.hdict

\* C18: when manual_homology_models comes to a gene whose input has a record
\* without model_file, the call ends with a KeyError at that gene and that
\* record is not in the gene's homology mapping.
C18_MalformedRaises ==
    [][\A g \in GeneIds :
          AtGene("manual_homology_models", g) /\ call' # call
             /\ Malformed(call.input[g]) # {}
          => /\ err' = "KeyError"
             /\ call' = IdleCall
             /\ \A n \in Malformed(call.input[g]) :
                   ~StoredIn(struct'[g].homology, call.input[g][n])]_vars

\* manual_homology_models has raised KeyError at the second model of g1, after
\* it stored the first one
C18_Witness ==
    /\ Idle
    /\ err = "KeyError"
    /\ io = <<>>
    /\ "m1" \in Range(struct["g1"].homology.keys)
    /\ "c_score" \in DOMAIN struct["g1"].homology.val["m1"]
    /\ "m2" \notin Range(struct["g1"].homology.keys)


----------------------------------------------------------------------------
(* Properties of the gene list *)

\* the ids of the gene list are distinct
UniqueIds == \A m, n \in 1..Len(genes) : genes[m] = genes[n] => m = n

\* gene g owns one sequence annotation and one structure annotation, each
\* with its three slots
OwnsAnnotations(g) ==
    /\ DOMAIN seq[g] = {"kegg", "uniprot", "representative"}
    /\ DOMAIN struct[g] = {"homology", "pdb", "representative"}

\* the genes of the project stay, at their places
NoGeneRemoved == Len(genes) <= Len(genes') /\ SubSeq(genes', 1, Len(genes)) = genes

\* a call of add_genes_by_id
AddGenesStep == Idle /\ call' = call /\ ncalls' = ncalls + 1

\* C19: once the project is constructed from a list of gene ids, through
\* add_genes_by_id calls and mapping calls the gene ids are unique, every gene
\* has a sequence annotation with the slots kegg, uniprot, representative and
\* a structure annotation with the slots homology, pdb, representative, no
\* gene leaves the list, and add_genes_by_id leaves the annotations of the
\* genes already in the project as they were.
C19_GeneList ==
    /\ [](UniqueIds /\ \A g \in Range(genes) : OwnsAnnotations(g))
    /\ [][/\ NoGeneRemoved
          /\ AddGenesStep =>
                \A g \in Range(genes) : seq'[g] = seq[g] /\ struct'[g] = struct[g]]_vars

\* add_genes_by_id was given the id of a gene that had a KEGG annotation and
\* skipped it
C19_Witness ==
    /\ Idle
    /\ \E n \in 1..Len(io) :
         /\ io[n].ev = "DictList.union"
         /\ io[n].res = "skipped"
         /\ seq[io[n].gene].kegg # DefaultSeqRecord


----------------------------------------------------------------------------
(* The frame of set_representative_sequence *)

\* a step of a call of set_representative_sequence: its entry, its loop body
\* for one gene, or its end
InSequenceResolver ==
    call.op = "set_representative_sequence" \/ call'.op = "set_representative_sequence"

\* C20: a step of set_representative_sequence leaves, for every gene, the
\* sequence.kegg record, the sequence.uniprot mapping and the structure
\* annotation as they were, whatever branch it takes.
C20_ResolverFrame ==
    [][InSequenceResolver =>
          \A g \in GeneIds :
             /\ seq'[g].kegg = seq[g].kegg
             /\ seq'[g].uniprot = seq[g].uniprot
             /\ struct'[g] = struct[g]]_vars

\* in one call the resolver has set one gene from KEGG and another from
\* UniProt, and the first one's record differs from what it was by default
C20_Witness ==
    \E g, h \in GeneIds :
        /\ last[g] = "KEGG"
        /\ last[h] = "UniProt"
        /\ seq[g].representative # DefaultSeqRecord
        /\ seq[h].representative # DefaultSeqRecord


----------------------------------------------------------------------------
(* Properties of the PDB path *)

\* the structure id is a (pdb, chain) pair
IsPdbChain(id) == Len(id) = 2

\* the loop body for gene g writes a (pdb, chain) pair as representative in
\* this step: the record changes to one, or a chain of a PDB file is cleaned
SetsPdbChain(g) ==
    /\ StructureStep(g)
    /\ IsPdbChain(struct'[g].representative.structure_id)
    /\ \/ struct'[g].representative # struct[g].representative
       \/ \E e \in Range(EventsOf(io', g)) : e.ev = "write_pdb" /\ e.chain # ""

\* the sequence checker was called for the pair id of gene g and answered res
Checked(log, g, id, res) ==
    \E e \in Range(ChecksOf(log, g)) : e.pdb = id[1] /\ e.chain = id[2] /\ e.res = res

\* C21: when the loop body of set_representative_structure writes a
\* (pdb, chain) pair as the representative of a gene, the pair is a key of the
\* gene's structure.pdb, the representative sequence was read for the gene in
\* this call, and the sequence checker passed that pair and did not fail it
\* in this call.
C21_QCGate ==
    [][\A g \in GeneIds :
          SetsPdbChain(g) =>
            LET id == struct'[g].representative.structure_id
            IN /\ id \in Range(struct[g].pdb.keys)
               /\ PdbPathFirst(io', g)
               /\ EventsOf(io', g)[1].res
               /\ Checked(io', g, id, TRUE)
               /\ ~Checked(io', g, id, FALSE)]_vars

\* in the running call a gene got a pair that passed the check as its
\* representative, after another pair of the gene failed the check
C21_Witness ==
    /\ call.op = "set_representative_structure"
    /\ \E g \in GeneIds :
         LET id == struct[g].representative.structure_id
         IN /\ Passed(g)
            /\ IsPdbChain(id)
            /\ Checked(io, g, id, TRUE)
            /\ \E other \in Range(struct[g].pdb.keys) :
                  other # id /\ Checked(io, g, other, FALSE)


----------------------------------------------------------------------------
(* Properties of the PDB mapping *)

\* the (pdb, chain) pairs of the BLAST hits, in hit order
RECURSIVE HitPairs(_)
HitPairs(blast_results) ==
    IF blast_results = <<>> THEN <<>>
    ELSE LET hit == Head(blast_results)
         IN [c \in 1..Len(hit.hit_pdb_chains) |->
                <<Lower(hit.hit_pdb), Upper(hit.hit_pdb_chains[c])>>]
            \o HitPairs(Tail(blast_results))

\* a sequence without its repetitions
RECURSIVE Distinct(_)
Distinct(s) ==
    IF s = <<>> THEN <<>>
    ELSE LET r == Distinct(SubSeq(s, 1, Len(s) - 1))
         IN IF s[Len(s)] \in Range(r) THEN r ELSE Append(r, s[Len(s)])

\* the loop body of blast_seqs_to_pdb runs for gene g in this step
BlastStepOf(g) == AtGene("blast_seqs_to_pdb", g) /\ call' # call

\* C22: when the loop body of blast_seqs_to_pdb runs for a gene whose
\* structure.pdb is not empty, the old keys keep their places and their
\* records, and what comes after them are the pairs of some answer of BLAST
\* that are not old keys, once each, in hit order; nothing else of the
\* structure annotation changes.
C22_BlastAppends ==
    [][\A g \in GeneIds :
          BlastStepOf(g) /\ Len(struct[g].pdb.keys) > 0 =>
            LET old == struct[g].pdb
                new == struct'[g].pdb
            IN /\ Len(new.keys) >= Len(old.keys)
               /\ SubSeq(new.keys, 1, Len(old.keys)) = old.keys
               /\ \A k \in Range(old.keys) : new.val[k] = old.val[k]
               /\ \E blast_results \in BlastAnswers(g) :
                     SubSeq(new.keys, Len(old.keys) + 1, Len(new.keys))
                       = SelectSeq(Distinct(HitPairs(blast_results)),
                                   LAMBDA k : k \notin Range(old.keys))
               /\ struct'[g].homology = struct[g].homology
               /\ struct'[g].representative = struct[g].representative]_vars

\* the second call is blast_seqs_to_pdb with all_genes: g1 had the ranked
\* entry (2xyz, A), the hit (2xyz, A) was dropped and the hits (3def, A) and
\* (3def, B) were appended after it
C22_Witness ==
    /\ ncalls = 2
    /\ call.op = "blast_seqs_to_pdb"
    /\ call.flag
    /\ Passed("g1")
    /\ struct["g1"].pdb.keys = << <<"2xyz", "A">>, <<"3def", "A">>, <<"3def", "B">> >>
    /\ "rank" \in DOMAIN struct["g1"].pdb.val[<<"2xyz", "A">>]


\* the (pdb, chain) pairs of a ranking, in its order
RankedPairs(best_structures) ==
    [n \in 1..Len(best_structures) |->
        <<Lower(best_structures[n].pdb_id), Upper(best_structures[n].chain_id)>>]

\* the loop body of map_uniprot_to_pdb runs for gene g in this step
MapStepOf(g) == AtGene("map_uniprot_to_pdb", g) /\ call' # call

\* the mapping new is the mapping old after the ranking was merged in as
\* the claim says: the ranked pairs first, their ranks increasing from 1,
\* then the old keys that are not ranked, with their records
RankedFirst(old, new, best_structures) ==
    LET ranked == Distinct(RankedPairs(best_structures))
        kept == SelectSeq(old.keys, LAMBDA k : k \notin Range(ranked))
    IN /\ new.keys = ranked \o kept
       /\ new.val[ranked[1]].rank = 1
       /\ \A i \in 1..(Len(ranked) - 1) :
             new.val[ranked[i]].rank < new.val[ranked[i + 1]].rank
       /\ \A k \in Range(kept) : new.val[k] = old.val[k]
       /\ \A k \in Range(old.keys) : k \in Range(new.keys)

\* C23: when the loop body of map_uniprot_to_pdb runs for a gene with a
\* representative accession, structure.pdb is unchanged (empty ranking) or
\* it lists the ranked pairs of some ranking first, with ranks strictly
\* increasing from 1, followed by the old keys that are not ranked, in their
\* old order and with their records; no old key is lost.
C23_RankedFirst ==
    [][\A g \in GeneIds :
          MapStepOf(g) /\ seq[g].representative.uniprot_acc # None =>
            \E best_structures \in BestStructuresAnswers :
               IF best_structures = <<>> THEN struct'[g].pdb = struct[g].pdb
               ELSE RankedFirst(struct[g].pdb, struct'[g].pdb, best_structures)]_vars


\* C24: for a gene with PDB entries and no homology model, when every PDB
\* chain was checked and failed, the loop body leaves the gene's structure
\* annotation as it was, raises no error and the loop goes on to the next
\* gene.
C24_NoStructurePasses ==
    [][\A g \in GeneIds :
          (/\ StructureStep(g)
           /\ Len(struct[g].pdb.keys) > 0
           /\ Len(struct[g].homology.keys) = 0
           /\ AllFailed(io', g, struct[g]))
          => /\ struct'[g] = struct[g]
             /\ err' = "none"
             /\ call'.op = "set_representative_structure"
             /\ call'.i = call.i + 1]_vars

\* the running call has passed a gene with PDB entries and no homology
\* model, all its chains failed the check and it has no representative
C24_Witness ==
    /\ call.op = "set_representative_structure"
    /\ err = "none"
    /\ \E g \in GeneIds :
         /\ Passed(g)
         /\ Len(struct[g].pdb.keys) > 1
         /\ Len(struct[g].homology.keys) = 0
         /\ AllFailed(io, g, struct[g])
         /\ struct[g].representative = DefaultStructRep


----------------------------------------------------------------------------
(* Properties of the sequence resolver and of the sequence mappings *)

\* what a branch of the resolver does to the gene: the record it writes and
\* the exception it ends with
SeqOutcome(r) == [rep |-> r.rep, error |-> r.error]

\* C25: for every gene with UniProt entries, the UniProt ranking of the
\* branch taken when there is no KEGG sequence and the one of the branch
\* taken when there is one (and KEGG is not preferred) write the same
\* representative record and end in the same way.
C25_SameRanking ==
    \A g \in GeneIds :
       Len(seq[g].uniprot.keys) > 0 =>
          SeqOutcome(UniprotOnlyBranch(g, seq[g].representative, seq[g].uniprot))
            = SeqOutcome(UniprotBothBranch(g, seq[g].representative, seq[g].uniprot))


\* the genes of the rows of a dataframe
GenesIn(df) == { df[n].gene : n \in 1..Len(df) }

\* C26: when set_representative_sequence returns, every gene of the project
\* is in exactly one of missing_mapping and df_sequence_mapping, and it is in
\* missing_mapping exactly when its representative seq_len is 0.
C26_MissingMapping ==
    [][AtEnd("set_representative_sequence") /\ call' = IdleCall =>
          \A g \in Range(genes) :
             /\ (g \in Range(missing_mapping')) # (g \in GenesIn(df_sequence_mapping'))
             /\ (g \in Range(missing_mapping')) <=> (seq'[g].representative.seq_len = 0)]_vars


\* the loop body of uniprot_mapping_and_metadata runs for gene g in this step
UniprotStepOf(g) == AtGene("uniprot_mapping_and_metadata", g) /\ call' # call

\* the record of accession a alone: the names of its files, what its
\* metadata file holds, and the gene
RecordOf(g, a, meta) == Update(UniprotDictFor(EmptyDict, a, meta), [gene |-> g])

\* C27: when the loop body of uniprot_mapping_and_metadata has run for a
\* gene, there is an answer of the UniProt services that accounts for it: the
\* keys of sequence.uniprot are the old ones and the mapped accessions, the
\* entries of the other accessions are as they were, and the record stored
\* under each mapped accession is the record of that accession alone.
C27_OneRecordPerAccession ==
    [][\A g \in GeneIds :
          UniprotStepOf(g) =>
            \E answer \in UniprotAnswers(g) :
               /\ Range(seq'[g].uniprot.keys)
                     = Range(seq[g].uniprot.keys) \cup Range(answer.accs)
               /\ \A a \in Range(seq[g].uniprot.keys) \ Range(answer.accs) :
                     seq'[g].uniprot.val[a] = seq[g].uniprot.val[a]
               /\ \A a \in Range(answer.accs) :
                     seq'[g].uniprot.val[a] = RecordOf(g, a, answer.metas[a])]_vars


\* a manual mapping is applied in this step and names gene g, whose
\* representative the resolver had taken from KEGG or UniProt
ManualOverrideOf(g) ==
    /\ Idle
    /\ call' = call
    /\ ncalls' = ncalls + 1
    /\ last[g] \in {"KEGG", "UniProt"}
    /\ last'[g] = "none"

\* the representative records a manual mapping gives a gene that had none
FreshManualRecords(g) ==
    { ManualSeqRecord(DefaultSeqRecord, g, n) : n \in ManualSeqLens[g] } \cup
    { ManualUniprotRecord(DefaultSeqRecord, u.acc, u.meta) : u \in ManualUniprots[g] }

\* C28: when a manual mapping overrides a representative that the resolver
\* took from KEGG or UniProt, the fields uniprot_acc, kegg_id, pdbs and
\* metadata_file of the record are those the manual mapping gives a gene
\* with the default record: nothing of the earlier source is left in them.
C28_OverrideReplaces ==
    [][\A g \in GeneIds :
          ManualOverrideOf(g) =>
            \E fresh \in FreshManualRecords(g) :
               \A f \in {"uniprot_acc", "kegg_id", "pdbs", "metadata_file"} :
                  seq'[g].representative[f] = fresh[f]]_vars


----------------------------------------------------------------------------
(* Properties of the whole pipeline *)

\* the representative sequence of gene g names an accession or a file
HasRepresentative(g) ==
    \/ seq[g].representative.uniprot_acc # None
    \/ seq[g].representative.seq_file # None

\* C29: in every state a gene with a non-empty structure.pdb has a
\* representative sequence with a uniprot_acc or a seq_file; the loop body
\* of map_uniprot_to_pdb leaves the structure annotation of a gene without a
\* representative uniprot_acc as it is, and so does the loop body of
\* blast_seqs_to_pdb for a gene without a representative seq_file.
C29_PdbNeedsRepresentative ==
    /\ [](\A g \in GeneIds : Len(struct[g].pdb.keys) > 0 => HasRepresentative(g))
    /\ [][\A g \in GeneIds :
            /\ MapStepOf(g) /\ seq[g].representative.uniprot_acc = None
                 => struct'[g] = struct[g] /\ err' = "none"
            /\ BlastStepOf(g) /\ seq[g].representative.seq_file = None
                 => struct'[g] = struct[g] /\ err' = "none"]_vars

\* map_uniprot_to_pdb has passed both genes: one has no representative
\* accession and no PDB entry, the other has ranked entries
C29_Witness ==
    /\ call.op = "map_uniprot_to_pdb"
    /\ \E g, h \in GeneIds :
         /\ Passed(g) /\ Passed(h)
         /\ seq[g].representative.uniprot_acc = None
         /\ Len(struct[g].pdb.keys) = 0
         /\ Len(struct[h].pdb.keys) > 0


\* the structure annotation of gene g after map_uniprot_to_pdb with the
\* ranking bs and then blast_seqs_to_pdb(all_genes=True) with the hits br
RankedThenBlast(g, bs, br) ==
    BlastStep(RankedStep(struct[g], seq[g].representative.uniprot_acc, bs),
              seq[g].representative.seq_file, TRUE, br)

\* the same two in the other order
BlastThenRanked(g, bs, br) ==
    RankedStep(BlastStep(struct[g], seq[g].representative.seq_file, TRUE, br),
               seq[g].representative.uniprot_acc, bs)

\* C30: for every gene, in every state of the ingestion, every ranking and
\* every list of BLAST hits: map_uniprot_to_pdb followed by
\* blast_seqs_to_pdb(all_genes=True) gives the same structure.pdb (keys,
\* order and records) as the two in the other order.
C30_RankedBlastAllGenes ==
    \A g \in GeneIds :
       \A bs \in BestStructuresAnswers, br \in BlastAnswers(g) :
          RankedThenBlast(g, bs, br).pdb = BlastThenRanked(g, bs, br).pdb

\* a gene with PDB entries, an accession and a sequence file for which some
\* ranking and some hits each add a key of their own to structure.pdb
C30_Witness ==
    \E g \in GeneIds :
       /\ Len(struct[g].pdb.keys) > 0
       /\ \E bs \in BestStructuresAnswers, br \in BlastAnswers(g) :
            LET r == RankedStep(struct[g], seq[g].representative.uniprot_acc, bs).pdb
                b == BlastStep(struct[g], seq[g].representative.seq_file, TRUE, br).pdb
                both == RankedThenBlast(g, bs, br).pdb
            IN /\ Len(r.keys) > Len(struct[g].pdb.keys)
               /\ Len(b.keys) > Len(struct[g].pdb.keys)
               /\ Len(both.keys) > Len(r.keys)
               /\ Len(both.keys) > Len(b.keys)

====
